---- MODULE Spec2Model ----
(***************************************************************************)
(* A model of the cursor-project-rules extension: the repository manager   *)
(* (configuration list, working copies, clone / checkout / pull), the      *)
(* manage-repositories commands that drive it, the rule aggregator and the *)
(* rule installer.                                                         *)
(*                                                                         *)
(* Strings of the program that the code takes apart (urls, file names) are *)
(* sequences of tokens, so that split, replace, endsWith and basename are  *)
(* computed and not assumed.  The three-valued settings fields (a JSON     *)
(* boolean that may be absent) are the strings "true", "false", "unset".   *)
(*                                                                         *)
(* The specifications share the variables:                                 *)
(*   Spec          the repository side: synchronize, add, update, remove,  *)
(*                 change-branch, with one synchronize run and one command *)
(*                 in flight, interleaved at the awaits of the code;       *)
(*   SpecSettings  synchronize over settings with fields left out;         *)
(*   SpecManage    the manage-repositories commands over the two settings  *)
(*                 namespaces the code reads;                              *)
(*   SpecList      listRules over every content of the working copies;     *)
(*   SpecListTwice listRules and the add-rule command's listing;           *)
(*   SpecRules     the rule side: installRule, install-all, install-       *)
(*                 selected and install-one over working copies that a     *)
(*                 pull may change between the listing and the copy;       *)
(*   SpecActivate  activate(), its auto-update run and the refresh         *)
(*                 command;                                                *)
(*   SpecPath      getRepoPath over urls of a few tokens;                  *)
(*   SpecAddSync   one addRepository, then the next synchronize;           *)
(*   SpecInstallable  listing, then install-all, over file names that      *)
(*                 test basename;                                          *)
(*   SpecPicker    the multi-select command over the localRulesDir         *)
(*                 settings of both namespaces.                            *)
(***************************************************************************)
EXTENDS Naturals, Sequences, FiniteSets

VARIABLES
    cfgProject,   \* setting cursorProjectRules.repositories (RepositoryManager)
    cfgRules,     \* setting cursorRules.repositories (manage-repositories commands)
    wc,           \* working copies: repository path -> NoWC or [url, branch]
    sync,         \* the refreshRepositories run in flight
    cmd,          \* the manage-repositories command in flight
    tree,         \* rule side: repository path -> NoWC or its directories
    localDir,     \* rule side: the installation directory <workspace>/<localRulesDir>
    env,          \* rule side: what the filesystem lets the installer do
    listed,       \* rule side: the result of the last listRules call
    batch,        \* rule side: the install operation in flight
    notes,        \* rule side: the notifications shown to the user
    act,          \* activation: where activate() stands
    bg,           \* activation: the auto-update run that activate() does not await
    probe,        \* getRepoPath: a url and the paths computed for it
    ws            \* the localRulesDir settings and the workspace's other directories

repoVars == <<cfgProject, cfgRules, wc, sync, cmd>>
ruleVars == <<tree, localDir, env, listed, batch, notes>>
actVars == <<act, bg, probe>>
vars == <<cfgProject, cfgRules, wc, sync, cmd, tree, localDir, env, listed, batch, notes,
          act, bg, probe, ws>>

----------------------------------------------------------------------------
(* Bounds *)

MaxRepos == 2

----------------------------------------------------------------------------
(* Values *)

Unset == "unset"
Tri == {"true", "false", Unset}
Truthy(v) == v = "true"
Not(v) == IF Truthy(v) THEN "false" ELSE "true"

U1 == <<"h", "/", "o1", "/", "bar", ".git">>
U2 == <<"h", "/", "o2", "/", "bar", ".git">>
U3 == <<"h", "/", "o1", "/", "foo">>
URLS == {U1, U2, U3}
Branches == {"main", "dev"}
\* no directory at a repository path
NoWC == [url |-> <<>>, branch |-> "absent"]

Repository(u, e, b, d, a) ==
    [url |-> u, enabled |-> e, branch |-> b, rulesDir |-> d, autoUpdate |-> a]

NoRepo == Repository(<<>>, Unset, Unset, Unset, Unset)

Range(s) == {s[k] : k \in 1..Len(s)}
Max(S) == CHOOSE x \in S : \A y \in S : y <= x
Min(S) == CHOOSE x \in S : \A y \in S : x <= y

----------------------------------------------------------------------------
(* RepositoryManager.getRepoPath *)

LastSegment(url) ==
    LET slashes == {k \in 1..Len(url) : url[k] = "/"}
        first == IF slashes = {} THEN 1 ELSE Max(slashes) + 1
    IN  SubSeq(url, first, Len(url))

ReplaceFirst(seg, tok) ==
    LET hits == {k \in 1..Len(seg) : seg[k] = tok}
    IN  IF hits = {} THEN seg
        ELSE SubSeq(seg, 1, Min(hits) - 1) \o SubSeq(seg, Min(hits) + 1, Len(seg))

Base64(url) == <<"b64">> \o url

getRepoPath(repoUrl) ==
    LET repoName == ReplaceFirst(LastSegment(repoUrl), ".git")
    IN  IF repoName = <<>> THEN Base64(repoUrl) ELSE repoName

Paths == {getRepoPath(u) : u \in URLS}

Exists(path) == wc[path] # NoWC

----------------------------------------------------------------------------
(* Configuration access *)

getRepositories == cfgProject

FindIndex(repos, url) ==
    LET hits == {k \in 1..Len(repos) : repos[k].url = url}
    IN  IF hits = {} THEN 0 ELSE Min(hits)

Pick(new, old) == IF new = Unset THEN old ELSE new

Merge(old, new) ==
    Repository(new.url,
               Pick(new.enabled, old.enabled),
               Pick(new.branch, old.branch),
               Pick(new.rulesDir, old.rulesDir),
               Pick(new.autoUpdate, old.autoUpdate))

\* mutant: the lookup by url is missing, every add appends
AddMerge_Push(repos, repo) == Append(repos, repo)

AddMerge(repos, repo) ==
    LET existingRepoIndex == FindIndex(repos, repo.url)
    IN  IF existingRepoIndex # 0
        THEN [repos EXCEPT ![existingRepoIndex] = Merge(repos[existingRepoIndex], repo)]
        ELSE Append(repos, repo)

RemoveFilter(repos, repoUrl) ==
    SelectSeq(repos, LAMBDA r : r.url # repoUrl)

----------------------------------------------------------------------------
(* The version-control adapter.  A git operation succeeds or fails as the  *)
(* network and the remote decide; clone refuses a path that exists.        *)

GitOutcomes == BOOLEAN

\* a working copy is the clone of a remote url with one branch checked out
Cloned(url, branch) == [url |-> url, branch |-> branch]

CheckedOut(copy, branch) == [copy EXCEPT !.branch = branch]

CloneCanSucceed(path) == wc[path] = NoWC

LogEntry(k, op, ok) == [i |-> k, op |-> op, ok |-> ok]

----------------------------------------------------------------------------
(* RepositoryManager.refreshRepositories, one step per await *)

IdleSync == [pc |-> "idle", repos |-> <<>>, i |-> 0, log |-> <<>>, errs |-> <<>>]

IdleCmd ==
    [pc |-> "idle", kind |-> "none", repo |-> NoRepo, log |-> <<>>, threw |-> FALSE,
     shown |-> "none"]

\* no operation is in flight: the interactive flow starts one operation at a time
Quiescent == sync.pc = "idle" /\ cmd.pc = "idle"

SyncRepo == sync.repos[sync.i]

\* mutant: the enabled test of the loop is missing
SyncSkips_Never(repo) == FALSE

SyncSkips(repo) == ~Truthy(repo.enabled)

SyncPulls(repo) == Truthy(repo.autoUpdate)

SyncAdvance(run) == [run EXCEPT !.i = @ + 1, !.pc = "loop"]

\* mutant: the handler reports and raises again, as addRepository's does
SyncCatch_Rethrow(run, url) == [run EXCEPT !.errs = Append(@, url), !.pc = "threw"]

SyncCatch(run, url) == SyncAdvance([run EXCEPT !.errs = Append(@, url)])

SyncLogged(k, op, ok) == [sync EXCEPT !.log = Append(@, LogEntry(k, op, ok))]

refreshRepositories ==
    /\ Quiescent
    /\ sync' = [IdleSync EXCEPT !.pc = "loop", !.repos = getRepositories, !.i = 1]
    /\ UNCHANGED <<cfgProject, cfgRules, wc, cmd, ruleVars, actVars, ws>>

SyncLoop ==
    /\ sync.pc = "loop"
    /\ IF sync.i > Len(sync.repos)
       THEN sync' = [sync EXCEPT !.pc = "done"]
       ELSE IF SyncSkips(SyncRepo)
       THEN sync' = SyncAdvance(sync)
       ELSE LET repoPath == getRepoPath(SyncRepo.url)
                seen == SyncLogged(sync.i, "exists", wc[repoPath] # NoWC)
            IN  IF ~Exists(repoPath)
                THEN sync' = [seen EXCEPT !.pc = "clone"]
                ELSE IF SyncPulls(SyncRepo)
                THEN sync' = [seen EXCEPT !.pc = "checkout"]
                ELSE sync' = SyncAdvance(seen)
    /\ UNCHANGED <<cfgProject, cfgRules, wc, cmd, ruleVars, actVars, ws>>

SyncClone ==
    /\ sync.pc = "clone"
    /\ LET repoPath == getRepoPath(SyncRepo.url)
       IN  \E ok \in GitOutcomes :
            /\ ok => CloneCanSucceed(repoPath)
            /\ IF ok
               THEN /\ wc' = [wc EXCEPT ![repoPath] = Cloned(SyncRepo.url, SyncRepo.branch)]
                    /\ sync' = SyncAdvance(SyncLogged(sync.i, "clone", TRUE))
               ELSE /\ wc' = wc
                    /\ sync' = SyncCatch(SyncLogged(sync.i, "clone", FALSE), SyncRepo.url)
    /\ UNCHANGED <<cfgProject, cfgRules, cmd, ruleVars, actVars, ws>>

SyncCheckout ==
    /\ sync.pc = "checkout"
    /\ LET repoPath == getRepoPath(SyncRepo.url)
       IN  \E ok \in GitOutcomes :
            IF ok
            THEN /\ wc' = [wc EXCEPT ![repoPath] = CheckedOut(@, SyncRepo.branch)]
                 /\ sync' = [SyncLogged(sync.i, "checkout", TRUE) EXCEPT !.pc = "pull"]
            ELSE /\ wc' = wc
                 /\ sync' = SyncCatch(SyncLogged(sync.i, "checkout", FALSE), SyncRepo.url)
    /\ UNCHANGED <<cfgProject, cfgRules, cmd, ruleVars, actVars, ws>>

SyncPull ==
    /\ sync.pc = "pull"
    /\ \E ok \in GitOutcomes :
            IF ok
            THEN sync' = SyncAdvance(SyncLogged(sync.i, "pull", TRUE))
            ELSE sync' = SyncCatch(SyncLogged(sync.i, "pull", FALSE), SyncRepo.url)
    /\ UNCHANGED <<cfgProject, cfgRules, wc, cmd, ruleVars, actVars, ws>>

SyncReturn ==
    /\ sync.pc = "done"
    /\ sync' = IdleSync
    /\ UNCHANGED <<cfgProject, cfgRules, wc, cmd, ruleVars, actVars, ws>>

----------------------------------------------------------------------------
(* The commands of manage-repositories and the RepositoryManager methods   *)
(* they call, one step per await.  cmd.threw records that the manager's    *)
(* method raised to its caller, cmd.shown that the command ended on its    *)
(* own "Repository <url> not found" message.                               *)

CmdLogged(op, ok) == [cmd EXCEPT !.log = Append(@, LogEntry(0, op, ok))]

CmdThrow(c) == [c EXCEPT !.threw = TRUE, !.pc = "done"]

\* what follows a return of addRepository: changeBranch goes on to updateRepository
AfterAdd(c) ==
    IF c.kind = "changeBranch" THEN [c EXCEPT !.pc = "updFind"] ELSE [c EXCEPT !.pc = "done"]

\* addRepository up to its first await: read, merge by url, write
AddWrite(kind, repo) ==
    /\ FindIndex(getRepositories, repo.url) # 0 \/ Len(getRepositories) < MaxRepos
    /\ cfgProject' = AddMerge(getRepositories, repo)
    /\ LET c == [IdleCmd EXCEPT !.kind = kind, !.repo = repo]
       IN  cmd' = IF Truthy(repo.enabled) THEN [c EXCEPT !.pc = "addExists"] ELSE AfterAdd(c)

\* the descriptors addNewRepository builds from its input boxes
NewRepositories ==
    {Repository(u, "true", b, "rules", a) : u \in URLS, b \in Branches, a \in {"true", "false"}}

addRepository ==
    /\ Quiescent
    /\ \E repo \in NewRepositories : AddWrite("add", repo)
    /\ UNCHANGED <<cfgRules, wc, sync, ruleVars, actVars, ws>>

AddExists ==
    /\ cmd.pc = "addExists"
    /\ cmd' = IF ~Exists(getRepoPath(cmd.repo.url))
              THEN [cmd EXCEPT !.pc = "addClone"]
              ELSE AfterAdd(cmd)
    /\ UNCHANGED <<cfgProject, cfgRules, wc, sync, ruleVars, actVars, ws>>

AddClone ==
    /\ cmd.pc = "addClone"
    /\ LET repoPath == getRepoPath(cmd.repo.url)
       IN  \E ok \in GitOutcomes :
            /\ ok => CloneCanSucceed(repoPath)
            /\ IF ok
               THEN /\ wc' = [wc EXCEPT ![repoPath] = Cloned(cmd.repo.url, cmd.repo.branch)]
                    /\ cmd' = AfterAdd(CmdLogged("clone", TRUE))
               ELSE /\ wc' = wc
                    /\ cmd' = CmdThrow(CmdLogged("clone", FALSE))
    /\ UNCHANGED <<cfgProject, cfgRules, sync, ruleVars, actVars, ws>>

\* updateRepository up to its first await: find the entry or raise
UpdateFind(c, repoUrl) ==
    LET k == FindIndex(getRepositories, repoUrl)
    IN  IF k = 0
        THEN CmdThrow(c)
        ELSE [c EXCEPT !.repo = getRepositories[k], !.pc = "updExists"]

updateRepository ==
    /\ Quiescent
    /\ \E repoUrl \in URLS :
        cmd' = UpdateFind([IdleCmd EXCEPT !.kind = "update", !.repo.url = repoUrl], repoUrl)
    /\ UNCHANGED <<cfgProject, cfgRules, wc, sync, ruleVars, actVars, ws>>

UpdFind ==
    /\ cmd.pc = "updFind"
    /\ cmd' = UpdateFind(cmd, cmd.repo.url)
    /\ UNCHANGED <<cfgProject, cfgRules, wc, sync, ruleVars, actVars, ws>>

UpdExists ==
    /\ cmd.pc = "updExists"
    /\ cmd' = IF ~Exists(getRepoPath(cmd.repo.url))
              THEN CmdThrow(cmd)
              ELSE [cmd EXCEPT !.pc = "updCheckout"]
    /\ UNCHANGED <<cfgProject, cfgRules, wc, sync, ruleVars, actVars, ws>>

\* mutant: a failed checkout is swallowed and the pull goes ahead
UpdCheckout_PullAnyway ==
    /\ cmd.pc = "updCheckout"
    /\ LET repoPath == getRepoPath(cmd.repo.url)
       IN  \E ok \in GitOutcomes :
            IF ok
            THEN /\ wc' = [wc EXCEPT ![repoPath] = CheckedOut(@, cmd.repo.branch)]
                 /\ cmd' = [CmdLogged("checkout", TRUE) EXCEPT !.pc = "updPull"]
            ELSE /\ wc' = wc
                 /\ cmd' = [CmdLogged("checkout", FALSE) EXCEPT !.pc = "updPull"]
    /\ UNCHANGED <<cfgProject, cfgRules, sync, ruleVars, actVars, ws>>

UpdCheckout ==
    /\ cmd.pc = "updCheckout"
    /\ LET repoPath == getRepoPath(cmd.repo.url)
       IN  \E ok \in GitOutcomes :
            IF ok
            THEN /\ wc' = [wc EXCEPT ![repoPath] = CheckedOut(@, cmd.repo.branch)]
                 /\ cmd' = [CmdLogged("checkout", TRUE) EXCEPT !.pc = "updPull"]
            ELSE /\ wc' = wc
                 /\ cmd' = CmdThrow(CmdLogged("checkout", FALSE))
    /\ UNCHANGED <<cfgProject, cfgRules, sync, ruleVars, actVars, ws>>

UpdPull ==
    /\ cmd.pc = "updPull"
    /\ \E ok \in GitOutcomes :
            IF ok
            THEN cmd' = [CmdLogged("pull", TRUE) EXCEPT !.pc = "done"]
            ELSE cmd' = CmdThrow(CmdLogged("pull", FALSE))
    /\ UNCHANGED <<cfgProject, cfgRules, wc, sync, ruleVars, actVars, ws>>

\* the command found no entry for the url in the list it read
NotFound(kind, repoUrl) ==
    [IdleCmd EXCEPT !.kind = kind, !.repo.url = repoUrl, !.pc = "done", !.shown = "notFound"]

\* changeBranch: the entry is read from cursorRules, written through addRepository
changeBranch ==
    /\ Quiescent
    /\ \E repoUrl \in URLS, branchInput \in Branches :
        LET repoIndex == FindIndex(cfgRules, repoUrl)
        IN  IF repoIndex = 0
            THEN /\ cmd' = NotFound("changeBranch", repoUrl)
                 /\ cfgProject' = cfgProject
            ELSE AddWrite("changeBranch", [cfgRules[repoIndex] EXCEPT !.branch = branchInput])
    /\ UNCHANGED <<cfgRules, wc, sync, ruleVars, actVars, ws>>

\* toggleRepositoryEnabled: the entry of cursorRules with enabled negated goes
\* to addRepository
toggleRepositoryEnabled ==
    /\ Quiescent
    /\ \E repoUrl \in URLS :
        LET repoIndex == FindIndex(cfgRules, repoUrl)
        IN  IF repoIndex = 0
            THEN /\ cmd' = NotFound("toggleEnabled", repoUrl)
                 /\ cfgProject' = cfgProject
            ELSE AddWrite("toggleEnabled", [cfgRules[repoIndex] EXCEPT !.enabled = Not(@)])
    /\ UNCHANGED <<cfgRules, wc, sync, ruleVars, actVars, ws>>

toggleAutoUpdate ==
    /\ Quiescent
    /\ \E repoUrl \in URLS :
        LET repoIndex == FindIndex(cfgRules, repoUrl)
        IN  IF repoIndex = 0
            THEN /\ cmd' = NotFound("toggleAutoUpdate", repoUrl)
                 /\ cfgProject' = cfgProject
            ELSE AddWrite("toggleAutoUpdate", [cfgRules[repoIndex] EXCEPT !.autoUpdate = Not(@)])
    /\ UNCHANGED <<cfgRules, wc, sync, ruleVars, actVars, ws>>

\* the rules directory names a user types into the input box
RulesDirInputs == {"rules", "docs"}

changeRulesDir ==
    /\ Quiescent
    /\ \E repoUrl \in URLS, rulesDirInput \in RulesDirInputs :
        LET repoIndex == FindIndex(cfgRules, repoUrl)
        IN  IF repoIndex = 0
            THEN /\ cmd' = NotFound("changeRulesDir", repoUrl)
                 /\ cfgProject' = cfgProject
            ELSE AddWrite("changeRulesDir", [cfgRules[repoIndex] EXCEPT !.rulesDir = rulesDirInput])
    /\ UNCHANGED <<cfgRules, wc, sync, ruleVars, actVars, ws>>

\* mutant: remove also cleans the working copy up
removeRepository_Cleanup ==
    /\ Quiescent
    /\ \E repoUrl \in URLS :
        /\ cfgProject' = RemoveFilter(getRepositories, repoUrl)
        /\ wc' = [wc EXCEPT ![getRepoPath(repoUrl)] = NoWC]
        /\ cmd' = [IdleCmd EXCEPT !.kind = "remove", !.repo.url = repoUrl, !.pc = "done"]
    /\ UNCHANGED <<cfgRules, sync, ruleVars, actVars, ws>>

removeRepository ==
    /\ Quiescent
    /\ \E repoUrl \in URLS :
        /\ cfgProject' = RemoveFilter(getRepositories, repoUrl)
        /\ cmd' = [IdleCmd EXCEPT !.kind = "remove", !.repo.url = repoUrl, !.pc = "done"]
    /\ UNCHANGED <<cfgRules, wc, sync, ruleVars, actVars, ws>>

CmdReturn ==
    /\ cmd.pc = "done"
    /\ cmd' = IdleCmd
    /\ UNCHANGED <<cfgProject, cfgRules, wc, sync, ruleVars, actVars, ws>>

----------------------------------------------------------------------------
(* Files.  A working copy's rules directory is missing, is not a directory, *)
(* or lists entries in readdir order; a file name is a sequence of tokens,  *)
(* its extension the last one.                                              *)

NoDir == [kind |-> "none", entries |-> <<>>]
NotADir == [kind |-> "file", entries |-> <<>>]
Dir(entries) == [kind |-> "dir", entries |-> entries]

File(name, data) == [name |-> name, isFile |-> TRUE, data |-> data]
Folder(name) == [name |-> name, isFile |-> FALSE, data |-> "-"]

RulesDirName == "rules"

\* <workingCopy>/<rulesDir>: the working copies hold no directory but rules
rulesPath(repo) == <<getRepoPath(repo.url), repo.rulesDir>>

DirAt(path) == IF path[2] = RulesDirName THEN tree[path[1]] ELSE NoDir

EndsWith(name, ext) == Len(name) > 0 /\ name[Len(name)] = ext

\* mutant: a name that is nothing but the extension is kept whole
Basename_KeepsBareExt(name, ext) ==
    IF name = <<ext>> THEN name
    ELSE IF EndsWith(name, ext) THEN SubSeq(name, 1, Len(name) - 1)
    ELSE name

\* path.basename(name, ext): the extension is cut off the end; a name that is
\* nothing but the extension gives the empty name
Basename(name, ext) ==
    IF name = <<ext>> THEN <<>>
    ELSE IF EndsWith(name, ext) THEN SubSeq(name, 1, Len(name) - 1)
    ELSE name

MdcFile(name) == name \o <<".mdc">>

----------------------------------------------------------------------------
(* RepositoryManager.getAllRules *)

Rule(name, repoUrl, path) == [name |-> name, repoUrl |-> repoUrl, path |-> path]

getEnabledRepositories == SelectSeq(getRepositories, LAMBDA repo : Truthy(repo.enabled))

\* mutant: the isFile test is missing
IsRuleEntry_AnyKind(entry) == EndsWith(entry.name, ".mdc")

IsRuleEntry(entry) == entry.isFile /\ EndsWith(entry.name, ".mdc")

RulesOf(repo) ==
    LET dir == DirAt(rulesPath(repo))
        found == SelectSeq(dir.entries, IsRuleEntry)
    IN  IF dir.kind # "dir" THEN <<>>
        ELSE [k \in 1..Len(found) |->
                 Rule(Basename(found[k].name, ".mdc"), repo.url, rulesPath(repo))]

\* readdir raises on a rules path that exists and is no directory
ReadErrorsOf(repo) ==
    IF DirAt(rulesPath(repo)).kind = "file" THEN <<repo.url>> ELSE <<>>

RECURSIVE Flatten(_)
Flatten(seqs) == IF seqs = <<>> THEN <<>> ELSE Head(seqs) \o Flatten(Tail(seqs))

getAllRules ==
    Flatten([k \in 1..Len(getEnabledRepositories) |-> RulesOf(getEnabledRepositories[k])])

getAllRulesErrors ==
    Flatten([k \in 1..Len(getEnabledRepositories) |-> ReadErrorsOf(getEnabledRepositories[k])])

NotListed == [valid |-> FALSE, rules |-> <<>>, errors |-> <<>>]

\* mutant: the listing consumes the rule files it reports
ListRules_Consumes ==
    /\ ~listed.valid
    /\ listed' = [valid |-> TRUE, rules |-> getAllRules, errors |-> getAllRulesErrors]
    /\ tree' = [p \in DOMAIN tree |-> [tree[p] EXCEPT !.entries = <<>>]]
    /\ UNCHANGED <<repoVars, actVars, ws, localDir, env, batch, notes>>

ListRules ==
    /\ ~listed.valid
    /\ listed' = [valid |-> TRUE, rules |-> getAllRules, errors |-> getAllRulesErrors]
    /\ UNCHANGED <<repoVars, actVars, ws, tree, localDir, env, batch, notes>>

----------------------------------------------------------------------------
(* RuleManager.installRule *)

NoLocalDir == [exists |-> FALSE, files |-> {}]

None == <<"-">>

Note(level, about, rule) == [level |-> level, about |-> about, rule |-> rule]

SourceEntries(rule) ==
    LET dir == DirAt(rule.path)
    IN  {dir.entries[k] : k \in {j \in 1..Len(dir.entries) :
                                    dir.entries[j].name = MdcFile(rule.name)}}

SourceReadable(rule) == \E e \in SourceEntries(rule) : e.isFile

SourceData(rule) == (CHOOSE e \in SourceEntries(rule) : e.isFile).data

\* mutant: the copy keeps a file that is there and writes beside it
CopyFile_KeepOld(files, target, data) ==
    IF \E f \in files : f.name = target
    THEN files \cup {[name |-> <<"copy of">> \o target, data |-> data]}
    ELSE files \cup {[name |-> target, data |-> data]}

\* mutant: a file that is there is left as it is
CopyFile_KeepFirst(files, target, data) ==
    IF \E f \in files : f.name = target
    THEN files
    ELSE files \cup {[name |-> target, data |-> data]}

CopyFile(files, target, data) ==
    {f \in files : f.name # target} \cup {[name |-> target, data |-> data]}

\* how one call of installRule ends: the workspace is missing, mkdir raises,
\* copyFile raises (no source file, or the directory refuses the write), or the
\* file is copied
InstallOutcomes == {"noWorkspace", "mkdirFails", "copyFails", "ok"}

CanEnd(rule, how) ==
    IF ~env.workspace THEN how = "noWorkspace"
    ELSE \/ how = "mkdirFails" /\ ~localDir.exists
         \/ how = "copyFails"
         \/ how = "ok" /\ SourceReadable(rule)

InstalledDir(rule, how) ==
    CASE how = "ok" ->
            [exists |-> TRUE,
             files |-> CopyFile(localDir.files, MdcFile(rule.name), SourceData(rule))]
      [] how = "copyFails" -> [localDir EXCEPT !.exists = TRUE]
      [] OTHER -> localDir

InstallNotes(rule, how) ==
    CASE how = "ok" -> <<Note("info", "installed", rule.name)>>
      [] how = "copyFails" -> <<Note("error", "installError", rule.name)>>
      [] OTHER -> <<>>

Threw(how) == how # "ok"

----------------------------------------------------------------------------
(* The localRulesDir setting, read by installRule in the cursorRules       *)
(* namespace and by the multi-select command in cursorProjectRules.         *)
(* localDir is the directory installRule names; ws.elsewhere holds the     *)
(* workspace's other directories.                                           *)

DefaultLocalRulesDir == ".cursor/rules"

LocalDirNames == {DefaultLocalRulesDir, "docs/rules"}

DefaultWs ==
    [cursorRules |-> Unset, cursorProjectRules |-> Unset,
     elsewhere |-> [d \in LocalDirNames |-> NoLocalDir]]

\* config.get<string>('localRulesDir') || '.cursor/rules'
OrDefault(setting) == IF setting = Unset THEN DefaultLocalRulesDir ELSE setting

getLocalRulesDir == OrDefault(ws.cursorRules)

ScannedDir == OrDefault(ws.cursorProjectRules)

Directory(d) == IF d = getLocalRulesDir THEN localDir ELSE ws.elsewhere[d]

\* the names the command finds installed: the .mdc entries of the directory it
\* scans, less the extension
installedRuleNames ==
    LET dir == Directory(ScannedDir)
    IN  IF ~dir.exists THEN {}
        ELSE {Basename(f.name, ".mdc") : f \in {g \in dir.files : EndsWith(g.name, ".mdc")}}

\* the items the picker marks as installed and selects before it is shown
Marked(rules) == {k \in 1..Len(rules) : rules[k].name \in installedRuleNames}

----------------------------------------------------------------------------
(* The install commands: add all, add multiple, add one *)

\* picked: the selectedItems of the picker when it was accepted, as positions
\* of the list it showed
\* marked: the items the multi-select picker shows pre-selected
IdleBatch ==
    [pc |-> "idle", kind |-> "none", rules |-> <<>>, picked |-> {}, marked |-> {}, i |-> 0,
     succeeded |-> 0, failed |-> 0, log |-> <<>>, report |-> <<>>]

Started(kind, rules, pc) == [IdleBatch EXCEPT !.kind = kind, !.rules = rules, !.pc = pc, !.i = 1]

Ended(kind, note) ==
    /\ batch' = [IdleBatch EXCEPT !.kind = kind, !.pc = "done"]
    /\ notes' = <<note>>

ReadNotes == [k \in 1..Len(getAllRulesErrors) |-> Note("error", "readError", getAllRulesErrors[k])]

\* mutant: install-all goes to the loop without looking for a workspace
addAllRulesCommand_NoCheck ==
    /\ batch.pc = "idle"
    /\ IF getAllRules = <<>>
       THEN Ended("all", Note("info", "noRules", None))
       ELSE /\ batch' = Started("all", getAllRules, "run")
            /\ notes' = ReadNotes
    /\ UNCHANGED <<repoVars, actVars, ws, tree, localDir, env, listed>>

addAllRulesCommand ==
    /\ batch.pc = "idle"
    /\ IF ~env.workspace
       THEN Ended("all", Note("error", "noWorkspace", None))
       ELSE IF getAllRules = <<>>
       THEN Ended("all", Note("info", "noRules", None))
       ELSE /\ batch' = Started("all", getAllRules, "run")
            /\ notes' = ReadNotes
    /\ UNCHANGED <<repoVars, actVars, ws, tree, localDir, env, listed>>

addMultipleRulesCommand ==
    /\ batch.pc = "idle"
    /\ IF getAllRules = <<>>
       THEN Ended("selected", Note("info", "noRules", None))
       ELSE IF ~env.workspace
       THEN Ended("selected", Note("error", "noWorkspace", None))
       ELSE /\ batch' = [Started("selected", getAllRules, "pick")
                            EXCEPT !.marked = Marked(getAllRules)]
            /\ notes' = ReadNotes
    /\ UNCHANGED <<repoVars, actVars, ws, tree, localDir, env, listed>>

addCursorRuleCommand ==
    /\ batch.pc = "idle"
    /\ IF getAllRules = <<>>
       THEN Ended("one", Note("info", "noRules", None))
       ELSE /\ batch' = Started("one", getAllRules, "pick")
            /\ notes' = ReadNotes
    /\ UNCHANGED <<repoVars, actVars, ws, tree, localDir, env, listed>>

KthSmallest(S, k) == CHOOSE x \in S : Cardinality({y \in S : y <= x}) = k

\* mutant: every rule the picker showed is taken, selected or not
Selected_All(rules, S) == rules

Selected(rules, S) == [k \in 1..Cardinality(S) |-> rules[KthSmallest(S, k)]]

\* what the picker lets the user accept: any items of the multi-select list, at
\* most one item of the single-select list
Selections ==
    {S \in SUBSET (1..Len(batch.rules)) : batch.kind = "one" => Cardinality(S) <= 1}

PickerAccept ==
    /\ batch.pc = "pick"
    /\ \E S \in Selections :
        IF S = {}
        THEN Ended(batch.kind, Note("info", "noSelection", None))
        ELSE IF batch.kind = "one" /\ ~env.workspace
        THEN /\ batch' = [IdleBatch EXCEPT !.kind = batch.kind, !.picked = S, !.pc = "done"]
             /\ notes' = <<Note("error", "noWorkspace", None)>>
        ELSE /\ batch' = [batch EXCEPT !.rules = Selected(batch.rules, S), !.picked = S,
                                       !.marked = {}, !.pc = "run"]
             /\ notes' = notes
    /\ UNCHANGED <<repoVars, actVars, ws, tree, localDir, env, listed>>

PickerHide ==
    /\ batch.pc = "pick"
    /\ Ended(batch.kind, Note("info", "noSelection", None))
    /\ UNCHANGED <<repoVars, actVars, ws, tree, localDir, env, listed>>

\* what the caller of installRule adds when installRule raised
CallerNotes(kind, rule, how) ==
    IF ~Threw(how) THEN <<>>
    ELSE CASE kind = "selected" -> <<Note("error", "failedToInstall", rule.name)>>
           [] kind = "one" -> <<Note("error", "addRuleError", None)>>
           [] OTHER -> <<>>

SummaryNotes(kind, failed) ==
    IF kind = "one" THEN <<>>
    ELSE IF failed = 0 THEN <<Note("info", "summary", None)>>
    ELSE <<Note("warning", "summary", None)>>

\* mutant: the loop ends at the first rule that fails
Counted_StopAtFailure(b, how) ==
    LET c == [b EXCEPT !.log = Append(@, [i |-> b.i, how |-> how]),
                       !.succeeded = @ + (IF Threw(how) THEN 0 ELSE 1),
                       !.failed = @ + (IF Threw(how) THEN 1 ELSE 0)]
    IN  IF Threw(how) \/ b.i = Len(b.rules)
        THEN [c EXCEPT !.pc = "done", !.report = <<c.succeeded, c.failed>>]
        ELSE [c EXCEPT !.i = @ + 1]

\* one turn of the loop: count the rule, go on, report after the last rule
Counted(b, how) ==
    LET c == [b EXCEPT !.log = Append(@, [i |-> b.i, how |-> how]),
                       !.succeeded = @ + (IF Threw(how) THEN 0 ELSE 1),
                       !.failed = @ + (IF Threw(how) THEN 1 ELSE 0)]
    IN  IF b.i = Len(b.rules)
        THEN [c EXCEPT !.pc = "done", !.report = <<c.succeeded, c.failed>>]
        ELSE [c EXCEPT !.i = @ + 1]

installRule ==
    /\ batch.pc = "run"
    /\ LET rule == batch.rules[batch.i]
       IN  \E how \in InstallOutcomes :
            /\ CanEnd(rule, how)
            /\ localDir' = InstalledDir(rule, how)
            /\ batch' = Counted(batch, how)
            /\ notes' = notes \o InstallNotes(rule, how) \o CallerNotes(batch.kind, rule, how)
                          \o (IF batch'.pc = "done"
                              THEN SummaryNotes(batch.kind, batch'.failed) ELSE <<>>)
    /\ UNCHANGED <<repoVars, actVars, ws, tree, env, listed>>

BatchReturn ==
    /\ batch.pc = "done"
    /\ batch' = IdleBatch
    /\ notes' = <<>>
    /\ UNCHANGED <<repoVars, actVars, ws, tree, localDir, env, listed>>

----------------------------------------------------------------------------
(* What a pull does to the rule files of a working copy *)

MaxChanges == 1

RemoveAt(s, k) == SubSeq(s, 1, k - 1) \o SubSeq(s, k + 1, Len(s))

PullPrunes ==
    /\ env.changes < MaxChanges
    /\ \E p \in Paths : \E k \in 1..Len(tree[p].entries) :
        /\ tree[p].entries[k].isFile
        /\ tree' = [tree EXCEPT ![p].entries = RemoveAt(@, k)]
    /\ env' = [env EXCEPT !.changes = @ + 1]
    /\ UNCHANGED <<repoVars, actVars, ws, localDir, listed, batch, notes>>

PullRewrites ==
    /\ env.changes < MaxChanges
    /\ \E p \in Paths : \E k \in 1..Len(tree[p].entries) :
        /\ tree[p].entries[k].isFile
        /\ tree[p].entries[k].data # "new"
        /\ tree' = [tree EXCEPT ![p].entries[k].data = "new"]
    /\ env' = [env EXCEPT !.changes = @ + 1]
    /\ UNCHANGED <<repoVars, actVars, ws, localDir, listed, batch, notes>>

----------------------------------------------------------------------------
(* activate(): the initial synchronize is awaited, the commands are       *)
(* registered, and when some repository is enabled with autoUpdate a      *)
(* second synchronize is started and not awaited.  The refresh command    *)
(* starts a run of its own.                                               *)

\* activation is over and no auto-update run is left
NoProbe == [url |-> <<>>, paths |-> <<>>]

Activated == act = "active" /\ bg = IdleSync /\ probe = NoProbe

StartedRun(repos) == [IdleSync EXCEPT !.pc = "loop", !.repos = repos, !.i = 1]

InFlight(run) == run.pc \notin {"idle", "done"}

Logged(run, op, ok) == [run EXCEPT !.log = Append(@, LogEntry(run.i, op, ok))]

\* one step of a refreshRepositories run over the working copies, the git
\* operation of the step ending as ok says
RunStep(run, copies, ok) ==
    LET repo == run.repos[run.i]
        repoPath == getRepoPath(repo.url)
    IN  CASE run.pc = "loop" ->
                [wc |-> copies,
                 run |-> IF run.i > Len(run.repos) THEN [run EXCEPT !.pc = "done"]
                         ELSE IF SyncSkips(repo) THEN SyncAdvance(run)
                         ELSE LET seen == Logged(run, "exists", copies[repoPath] # NoWC)
                              IN  IF copies[repoPath] = NoWC THEN [seen EXCEPT !.pc = "clone"]
                                  ELSE IF SyncPulls(repo) THEN [seen EXCEPT !.pc = "checkout"]
                                  ELSE SyncAdvance(seen)]
          [] run.pc = "clone" ->
                IF ok /\ copies[repoPath] = NoWC
                THEN [wc |-> [copies EXCEPT ![repoPath] = Cloned(repo.url, repo.branch)],
                      run |-> SyncAdvance(Logged(run, "clone", TRUE))]
                ELSE [wc |-> copies, run |-> SyncCatch(Logged(run, "clone", FALSE), repo.url)]
          [] run.pc = "checkout" ->
                IF ok
                THEN [wc |-> [copies EXCEPT ![repoPath] = CheckedOut(@, repo.branch)],
                      run |-> [Logged(run, "checkout", TRUE) EXCEPT !.pc = "pull"]]
                ELSE [wc |-> copies, run |-> SyncCatch(Logged(run, "checkout", FALSE), repo.url)]
          [] run.pc = "pull" ->
                [wc |-> copies,
                 run |-> IF ok THEN SyncAdvance(Logged(run, "pull", TRUE))
                         ELSE SyncCatch(Logged(run, "pull", FALSE), repo.url)]

\* activate() up to the await of initialize(): the initial synchronize starts
activate ==
    /\ act = "start"
    /\ act' = "initialize"
    /\ sync' = StartedRun(getRepositories)
    /\ UNCHANGED <<cfgProject, cfgRules, wc, cmd, ruleVars, bg, probe, ws>>

hasAutoUpdateEnabled ==
    \E k \in 1..Len(cfgProject) :
        Truthy(cfgProject[k].enabled) /\ Truthy(cfgProject[k].autoUpdate)

\* initialize() has returned: the commands are registered and the auto-update
\* run is started without an await
ActivateAutoUpdate ==
    /\ act = "initialize" /\ sync.pc = "idle"
    /\ act' = "active"
    /\ bg' = IF hasAutoUpdateEnabled THEN StartedRun(getRepositories) ELSE IdleSync
    /\ UNCHANGED <<cfgProject, cfgRules, wc, sync, cmd, ruleVars, probe, ws>>

AutoUpdateStep ==
    /\ InFlight(bg)
    /\ \E ok \in GitOutcomes :
        LET next == RunStep(bg, wc, ok)
        IN  bg' = next.run /\ wc' = next.wc
    /\ UNCHANGED <<cfgProject, cfgRules, sync, cmd, ruleVars, act, probe, ws>>

AutoUpdateReturn ==
    /\ bg.pc = "done"
    /\ bg' = IdleSync
    /\ UNCHANGED <<cfgProject, cfgRules, wc, sync, cmd, ruleVars, act, probe, ws>>

\* what the refresh commands show when the run they awaited is over: the error
\* of a run that raised, else plain success; neither message carries a count
RefreshReport(run) ==
    IF run.pc = "threw"
    THEN [level |-> "error", about |-> "refreshError", counts |-> <<>>]
    ELSE [level |-> "info", about |-> "refreshedSuccessfully", counts |-> <<>>]

\* the refresh command, once activation has registered it; the user does not
\* start it again while its own run is in flight
refreshRepositoriesCommand ==
    /\ act = "active" /\ sync.pc = "idle"
    /\ sync' = StartedRun(getRepositories)
    /\ UNCHANGED <<cfgProject, cfgRules, wc, cmd, ruleVars, actVars, ws>>

----------------------------------------------------------------------------
(* The repository side *)

UniqueUrls(repos) ==
    \A j, k \in 1..Len(repos) : repos[j].url = repos[k].url => j = k

\* the repositories setting as a user may have written it: unique urls, the
\* flags present or absent
Flags == {"true", "false"}

ListsUpTo(n, S) ==
    {s \in UNION {[1..m -> S] : m \in 0..n} : UniqueUrls(s)}

ListsOf(S) == ListsUpTo(MaxRepos, S)

\* the repositories setting with every field written out
ConfiguredLists ==
    ListsOf({Repository(u, e, "main", "rules", a) : u \in URLS, e \in Flags, a \in Flags})

\* the rule side at rest: nothing cloned has rules, nothing is installed
RuleSideIdle ==
    /\ tree = [p \in Paths |-> NoDir]
    /\ localDir = NoLocalDir
    /\ env = [workspace |-> TRUE, changes |-> 0]
    /\ listed = NotListed
    /\ batch = IdleBatch
    /\ notes = <<>>
    /\ Activated
    /\ ws = DefaultWs

\* the cursorRules.repositories setting: absent, or a list a user wrote under the
\* settings key the README documents
RulesSettings ==
    {<<>>, <<Repository(U1, "true", "main", "rules", "true"),
             Repository(U3, "false", "main", "rules", "false")>>}

Init ==
    /\ cfgProject \in ConfiguredLists
    /\ cfgRules \in RulesSettings
    /\ wc = [p \in Paths |-> NoWC]
    /\ sync = IdleSync
    /\ cmd = IdleCmd
    /\ RuleSideIdle

Next ==
    \/ refreshRepositories
    \/ SyncLoop
    \/ SyncClone
    \/ SyncCheckout
    \/ SyncPull
    \/ SyncReturn
    \/ addRepository
    \/ AddExists
    \/ AddClone
    \/ updateRepository
    \/ UpdFind
    \/ UpdExists
    \/ UpdCheckout
    \/ UpdPull
    \/ changeBranch
    \/ removeRepository
    \/ CmdReturn

Spec == Init /\ [][Next]_vars

----------------------------------------------------------------------------
(* The repositories setting as a user may write it, fields left out        *)

SettingsLists ==
    ListsOf({Repository(u, e, "main", "rules", a) : u \in {U1, U3}, e \in Tri, a \in Tri})

InitSettings ==
    /\ cfgProject \in SettingsLists
    /\ cfgRules = <<>>
    /\ wc = [p \in Paths |-> NoWC]
    /\ sync = IdleSync
    /\ cmd = IdleCmd
    /\ RuleSideIdle

NextSettings ==
    \/ refreshRepositories
    \/ SyncLoop
    \/ SyncClone
    \/ SyncCheckout
    \/ SyncPull
    \/ SyncReturn

SpecSettings == InitSettings /\ [][NextSettings]_vars

----------------------------------------------------------------------------
(* The manage-repositories commands alone, over a cursorRules setting that *)
(* is absent, differs from the list the manager reads, or repeats it        *)

ManagedLists ==
    ListsOf({Repository(u, e, "main", "rules", a) : u \in {U1, U3}, e \in Flags, a \in Flags})

InitManage ==
    /\ cfgProject \in ManagedLists
    /\ cfgRules \in RulesSettings \cup {cfgProject}
    /\ wc = [p \in Paths |-> NoWC]
    /\ sync = IdleSync
    /\ cmd = IdleCmd
    /\ RuleSideIdle

NextManage ==
    \/ toggleRepositoryEnabled
    \/ toggleAutoUpdate
    \/ changeBranch
    \/ changeRulesDir
    \/ updateRepository
    \/ removeRepository
    \/ AddExists
    \/ AddClone
    \/ UpdFind
    \/ UpdExists
    \/ UpdCheckout
    \/ UpdPull
    \/ CmdReturn

SpecManage == InitManage /\ [][NextManage]_vars

----------------------------------------------------------------------------
(* Listing the rules: every configuration over every content of the        *)
(* working copies                                                           *)

A_MDC == <<"a", ".mdc">>
B_MDC == <<"b", ".mdc">>
C_MDC == <<"c", ".mdc">>
A_TXT == <<"a", ".txt">>

\* the sequences that keep some of the entries of s, in the order of s
SubSeqs(s) == {Selected(s, S) : S \in SUBSET (1..Len(s))}

DirStates(entries) == {NoDir, NotADir} \cup {Dir(es) : es \in SubSeqs(entries)}

BarEntries == <<File(A_MDC, "bar a"), Folder(C_MDC), File(A_TXT, "bar txt"), File(B_MDC, "bar b")>>
FooEntries == <<File(C_MDC, "foo c"), File(A_MDC, "foo a")>>

BarPath == getRepoPath(U1)
FooPath == getRepoPath(U3)

Trees(bars, foos) ==
    {[p \in Paths |-> IF p = BarPath THEN b ELSE f] : b \in bars, f \in foos}

OriginOf(p) == CHOOSE u \in URLS : getRepoPath(u) = p

\* the working copies that hold the tree
Copies(t) == [p \in Paths |-> IF t[p] = NoDir THEN NoWC ELSE Cloned(OriginOf(p), "main")]

MaxListed == 3

\* the repositories setting with every field written out, the rules directory
\* one the working copy has or one it has not
ListedLists ==
    ListsUpTo(MaxListed, {Repository(u, e, "main", d, "false") :
                             u \in URLS, e \in Flags, d \in {RulesDirName, "docs"}})

InitList ==
    /\ cfgProject \in ListedLists
    /\ cfgRules = <<>>
    /\ tree \in Trees(DirStates(BarEntries), DirStates(FooEntries))
    /\ wc = Copies(tree)
    /\ sync = IdleSync
    /\ cmd = IdleCmd
    /\ localDir = NoLocalDir
    /\ env = [workspace |-> TRUE, changes |-> 0]
    /\ listed = NotListed
    /\ batch = IdleBatch
    /\ notes = <<>>
    /\ Activated
    /\ ws = DefaultWs

NextList == ListRules

SpecList == InitList /\ [][NextList]_vars

\* listRules called twice with nothing in between: once on its own, once by
\* the add-rule command for its picker
NextListTwice ==
    \/ ListRules
    \/ addCursorRuleCommand

SpecListTwice == InitList /\ [][NextListTwice]_vars

----------------------------------------------------------------------------
(* Installing rules while pulls change the working copies                  *)

RuleLists ==
    {<<Repository(U1, "true", "main", RulesDirName, "false"),
       Repository(U3, e, "main", RulesDirName, "false")>> : e \in Flags}

InitRules ==
    /\ cfgProject \in RuleLists
    /\ cfgRules = <<>>
    /\ tree \in Trees({NoDir, Dir(<<File(A_MDC, "bar a"), File(B_MDC, "bar b")>>)},
                      {NoDir, Dir(FooEntries)})
    /\ wc = Copies(tree)
    /\ sync = IdleSync
    /\ cmd = IdleCmd
    /\ localDir = NoLocalDir
    /\ env \in {[workspace |-> w, changes |-> 0] : w \in BOOLEAN}
    /\ listed = NotListed
    /\ batch = IdleBatch
    /\ notes = <<>>
    /\ Activated
    /\ ws = DefaultWs

NextRules ==
    \/ addAllRulesCommand
    \/ addMultipleRulesCommand
    \/ addCursorRuleCommand
    \/ PickerAccept
    \/ PickerHide
    \/ installRule
    \/ BatchReturn
    \/ PullPrunes
    \/ PullRewrites

SpecRules == InitRules /\ [][NextRules]_vars

----------------------------------------------------------------------------
(* One addRepository, then the next synchronize, the outcome of the add    *)
(* still on record                                                          *)

\* refreshRepositories called once the command has returned to its caller
refreshAfterCommand ==
    /\ sync.pc = "idle"
    /\ cmd.pc = "done"
    /\ sync' = [IdleSync EXCEPT !.pc = "loop", !.repos = getRepositories, !.i = 1]
    /\ UNCHANGED <<cfgProject, cfgRules, wc, cmd, ruleVars, actVars, ws>>

InitAddSync ==
    /\ cfgProject \in ConfiguredLists
    /\ cfgRules = <<>>
    /\ wc = [p \in Paths |-> NoWC]
    /\ sync = IdleSync
    /\ cmd = IdleCmd
    /\ RuleSideIdle

NextAddSync ==
    \/ addRepository
    \/ AddExists
    \/ AddClone
    \/ refreshAfterCommand
    \/ SyncLoop
    \/ SyncClone
    \/ SyncCheckout
    \/ SyncPull

SpecAddSync == InitAddSync /\ [][NextAddSync]_vars

----------------------------------------------------------------------------
(* Listing, then install-all, over rule files whose names put basename to  *)
(* the test, with no pull in between                                        *)

BARE_MDC == <<".mdc">>
A_MDC_MDC == <<"a", ".mdc", ".mdc">>

NamedEntries ==
    <<File(A_MDC_MDC, "bar a.mdc"), File(BARE_MDC, "bar bare"), Folder(B_MDC),
      File(A_MDC, "bar a")>>

InitInstallable ==
    /\ cfgProject \in {<<Repository(U1, "true", "main", d, "false")>> : d \in {RulesDirName, "docs"}}
    /\ cfgRules = <<>>
    /\ tree \in Trees(DirStates(NamedEntries), {NoDir})
    /\ wc = Copies(tree)
    /\ sync = IdleSync
    /\ cmd = IdleCmd
    /\ localDir = NoLocalDir
    /\ env = [workspace |-> TRUE, changes |-> 0]
    /\ listed = NotListed
    /\ batch = IdleBatch
    /\ notes = <<>>
    /\ Activated
    /\ ws = DefaultWs

NextInstallable ==
    \/ ListRules
    \/ addAllRulesCommand
    \/ installRule
    \/ BatchReturn

SpecInstallable == InitInstallable /\ [][NextInstallable]_vars

----------------------------------------------------------------------------
(* The multi-select command over every pair of localRulesDir settings and  *)
(* directories that hold rules already                                      *)

LocalSettings == {Unset} \cup LocalDirNames

Holding(names) == [exists |-> TRUE, files |-> {[name |-> n, data |-> "old"] : n \in names}]

InitPicker ==
    /\ cfgProject = <<Repository(U1, "true", "main", RulesDirName, "false")>>
    /\ cfgRules = <<>>
    /\ tree \in Trees({Dir(<<File(A_MDC, "bar a"), File(B_MDC, "bar b")>>)}, {NoDir})
    /\ wc = Copies(tree)
    /\ sync = IdleSync
    /\ cmd = IdleCmd
    /\ localDir \in {NoLocalDir, Holding({A_MDC}), Holding({B_MDC, A_TXT})}
    /\ env = [workspace |-> TRUE, changes |-> 0]
    /\ listed = NotListed
    /\ batch = IdleBatch
    /\ notes = <<>>
    /\ act = "active"
    /\ bg = IdleSync
    /\ probe = NoProbe
    /\ ws \in {[cursorRules |-> r, cursorProjectRules |-> q, elsewhere |-> e] :
                  r \in LocalSettings, q \in LocalSettings,
                  e \in [LocalDirNames -> {NoLocalDir, Holding({B_MDC})}]}

NextPicker ==
    \/ addMultipleRulesCommand
    \/ PickerAccept
    \/ PickerHide
    \/ installRule
    \/ BatchReturn

SpecPicker == InitPicker /\ [][NextPicker]_vars

----------------------------------------------------------------------------
(* Activation, then refresh commands while the auto-update run goes on     *)

\* the working copies earlier sessions left: none, or a clone of a url of the path
WorkingCopies ==
    {w \in [Paths -> {NoWC} \cup {Cloned(u, "main") : u \in URLS}] :
        \A p \in Paths : w[p] = NoWC \/ getRepoPath(w[p].url) = p}

InitActivate ==
    /\ cfgProject \in ConfiguredLists
    /\ cfgRules = <<>>
    /\ wc \in WorkingCopies
    /\ sync = IdleSync
    /\ cmd = IdleCmd
    /\ tree = [p \in Paths |-> NoDir]
    /\ localDir = NoLocalDir
    /\ env = [workspace |-> TRUE, changes |-> 0]
    /\ listed = NotListed
    /\ batch = IdleBatch
    /\ notes = <<>>
    /\ act = "start"
    /\ bg = IdleSync
    /\ probe = NoProbe
    /\ ws = DefaultWs

NextActivate ==
    \/ activate
    \/ SyncLoop
    \/ SyncClone
    \/ SyncCheckout
    \/ SyncPull
    \/ SyncReturn
    \/ ActivateAutoUpdate
    \/ AutoUpdateStep
    \/ AutoUpdateReturn
    \/ refreshRepositoriesCommand

SpecActivate == InitActivate /\ [][NextActivate]_vars

----------------------------------------------------------------------------
(* getRepoPath over the urls of a few tokens, computed twice                *)

MaxUrlLen == 4

UrlTokens == {"h", "/", "bar", ".git"}

Urls == UNION {[1..n -> UrlTokens] : n \in 0..MaxUrlLen}

InitPath ==
    /\ cfgProject = <<>>
    /\ cfgRules = <<>>
    /\ wc = [p \in Paths |-> NoWC]
    /\ sync = IdleSync
    /\ cmd = IdleCmd
    /\ tree = [p \in Paths |-> NoDir]
    /\ localDir = NoLocalDir
    /\ env = [workspace |-> TRUE, changes |-> 0]
    /\ listed = NotListed
    /\ batch = IdleBatch
    /\ notes = <<>>
    /\ act = "active"
    /\ bg = IdleSync
    /\ probe \in {[url |-> u, paths |-> <<>>] : u \in Urls}
    /\ ws = DefaultWs

ResolvePath ==
    /\ Len(probe.paths) < 2
    /\ probe' = [probe EXCEPT !.paths = Append(@, getRepoPath(probe.url))]
    /\ UNCHANGED <<repoVars, ruleVars, act, bg, ws>>

NextPath == ResolvePath

SpecPath == InitPath /\ [][NextPath]_vars

----------------------------------------------------------------------------
(* What a finished synchronize run did, read from its log *)

Count(log, k, op) == Cardinality({j \in 1..Len(log) : log[j].i = k /\ log[j].op = op})

Has(log, k, op, ok) == \E j \in 1..Len(log) : log[j] = LogEntry(k, op, ok)

GitOps == {"clone", "checkout", "pull"}

Failures(log) == SelectSeq(log, LAMBDA e : e.op \in GitOps /\ ~e.ok)

One(b) == IF b THEN 1 ELSE 0

SyncDone == sync.pc = "done"

\* C1 as stated: clone once per enabled repository found without a working copy,
\* pull once per enabled auto-update repository found with one, nothing for a
\* disabled repository.
C1_PullOncePerExisting ==
    SyncDone =>
        \A k \in 1..Len(sync.repos) :
            LET r == sync.repos[k]
                en == r.enabled = "true"
            IN  /\ Count(sync.log, k, "exists") = One(en)
                /\ Count(sync.log, k, "clone") = One(en /\ Has(sync.log, k, "exists", FALSE))
                /\ Count(sync.log, k, "pull") =
                       One(en /\ r.autoUpdate = "true" /\ Has(sync.log, k, "exists", TRUE))
                /\ ~en => \A op \in GitOps : Count(sync.log, k, op) = 0

\* C1 amended: one run of synchronize attempts clone exactly once for each enabled
\* repository whose working copy does not exist when the run reaches it, checkout
\* exactly once for each enabled repository with autoUpdate=true whose working copy
\* exists then, pull exactly once after each such checkout that succeeded and never
\* after one that failed, and no clone, checkout or pull for a disabled repository.
C1_SyncAttempts ==
    SyncDone =>
        \A k \in 1..Len(sync.repos) :
            LET r == sync.repos[k]
                en == r.enabled = "true"
                upd == en /\ r.autoUpdate = "true" /\ Has(sync.log, k, "exists", TRUE)
            IN  /\ Count(sync.log, k, "exists") = One(en)
                /\ Count(sync.log, k, "clone") = One(en /\ Has(sync.log, k, "exists", FALSE))
                /\ Count(sync.log, k, "checkout") = One(upd)
                /\ Count(sync.log, k, "pull") = One(upd /\ Has(sync.log, k, "checkout", TRUE))
                /\ ~en => \A op \in GitOps : Count(sync.log, k, op) = 0

\* a finished run that cloned one repository and failed the checkout of another
C1_Witness ==
    /\ SyncDone
    /\ \E j, k \in 1..Len(sync.repos) :
        /\ Has(sync.log, j, "checkout", FALSE)
        /\ Has(sync.log, k, "clone", TRUE)

\* C2: a clone, checkout or pull failure in synchronize is reported with a
\* notification naming the repository, in order; the run never raises to its
\* caller, and every enabled repository of the list, also one after a failure,
\* is processed before the run ends.
C2_FailureIsolation ==
    /\ sync.pc # "threw"
    /\ SyncDone =>
        /\ \A k \in 1..Len(sync.repos) :
              sync.repos[k].enabled = "true" => Count(sync.log, k, "exists") = 1
        /\ Len(sync.errs) = Len(Failures(sync.log))
        /\ \A j \in 1..Len(sync.errs) :
              sync.errs[j] = sync.repos[Failures(sync.log)[j].i].url

\* a finished run whose first repository failed and whose second was cloned
C2_Witness ==
    /\ SyncDone
    /\ Len(sync.repos) = 2
    /\ \E op \in GitOps : Has(sync.log, 1, op, FALSE)
    /\ Has(sync.log, 2, "clone", TRUE)
    /\ sync.errs = <<sync.repos[1].url>>

\* C7 as stated: a descriptor with no enabled field is synchronized like an enabled
\* one, and one with no autoUpdate field is pulled (checked out first) when its
\* working copy exists.
C7_DefaultsApplied ==
    SyncDone =>
        \A k \in 1..Len(sync.repos) :
            LET r == sync.repos[k]
                en == r.enabled \in {"true", Unset}
                au == r.autoUpdate \in {"true", Unset}
            IN  /\ Count(sync.log, k, "exists") = One(en)
                /\ Count(sync.log, k, "checkout") =
                       One(en /\ au /\ Has(sync.log, k, "exists", TRUE))

----------------------------------------------------------------------------
(* The configured list under add, update and remove *)

WroteConfig == cmd.pc = "idle" /\ cmd'.kind \in {"add", "changeBranch"} /\ cfgProject' # cfgProject

Removed == cmd.pc = "idle" /\ cmd'.kind = "remove"

FieldsOverwritten(entry, repo) ==
    /\ entry.url = repo.url
    /\ repo.enabled # Unset => entry.enabled = repo.enabled
    /\ repo.branch # Unset => entry.branch = repo.branch
    /\ repo.rulesDir # Unset => entry.rulesDir = repo.rulesDir
    /\ repo.autoUpdate # Unset => entry.autoUpdate = repo.autoUpdate

C8_Step ==
    /\ UniqueUrls(cfgProject')
    /\ WroteConfig =>
        LET repo == cmd'.repo
            at == {k \in 1..Len(cfgProject) : cfgProject[k].url = repo.url}
        IN  IF at # {}
            THEN /\ Len(cfgProject') = Len(cfgProject)
                 /\ \A k \in 1..Len(cfgProject) :
                       IF k \in at
                       THEN FieldsOverwritten(cfgProject'[k], repo)
                       ELSE cfgProject'[k] = cfgProject[k]
            ELSE /\ Len(cfgProject') = Len(cfgProject) + 1
                 /\ SubSeq(cfgProject', 1, Len(cfgProject)) = cfgProject
                 /\ cfgProject'[Len(cfgProject')] = repo

\* C8: from a list with unique urls, every add/update and remove leaves the urls
\* of the configured list unique; an add of a url that is present overwrites that
\* entry's fields in place and leaves the length and every other entry as they
\* were, an add of a new url appends exactly one entry.
C8_ReplaceByUrl == [][C8_Step]_vars

\* an add has just overwritten the first of two entries in place
C8_Witness ==
    /\ cmd.kind = "add"
    /\ cmd.pc = "done"
    /\ Len(cfgProject) = 2
    /\ cfgProject[1] = cmd.repo
    /\ cfgProject[1].branch = "dev"
    /\ cfgProject[2].url # cmd.repo.url

C9_Step ==
    /\ \A p \in Paths : wc[p] # NoWC => wc'[p] # NoWC
    /\ Removed =>
        /\ wc' = wc
        /\ cfgProject' = SelectSeq(cfgProject, LAMBDA r : r.url # cmd'.repo.url)

\* C9: removing a repository deletes only its entry from the configured list and
\* leaves every working copy as it was; no step of any operation deletes a
\* working copy.
C9_WorkingCopyRetained == [][C9_Step]_vars

\* a repository has just been removed and its working copy is still there, used
\* by no entry of the list
C9_Witness ==
    /\ cmd.kind = "remove"
    /\ cmd.pc = "done"
    /\ wc[getRepoPath(cmd.repo.url)] # NoWC
    /\ Len(cfgProject) = 1
    /\ getRepoPath(cfgProject[1].url) # getRepoPath(cmd.repo.url)

\* C10 as stated, read in the states in which no operation is in flight: where a
\* configured repository has a working copy (the clone of its url at its path),
\* the branch checked out in it is the branch recorded for the repository in the
\* configuration.
C10_BranchMatchesConfig ==
    Quiescent =>
        \A k \in 1..Len(cfgProject) :
            LET repoPath == getRepoPath(cfgProject[k].url)
            IN  wc[repoPath] # NoWC /\ wc[repoPath].url = cfgProject[k].url
                    => wc[repoPath].branch = cfgProject[k].branch

----------------------------------------------------------------------------
(* The rule side *)

Oks(log) == Cardinality({j \in 1..Len(log) : log[j].how = "ok"})
Fails(log) == Cardinality({j \in 1..Len(log) : log[j].how # "ok"})

InBatch == batch.kind \in {"all", "selected"} /\ batch.pc \in {"run", "done"} /\ batch.rules # <<>>

\* C3: install-all and install-selected attempt every rule of their list once
\* and in list order, a failure stops nothing after it, and the counts reported
\* at the end are the numbers of rules copied and of rules that failed, adding up
\* to the length of the list.
C3_BatchCounts ==
    InBatch =>
        /\ \A j \in 1..Len(batch.log) : batch.log[j].i = j
        /\ batch.pc = "run" => Len(batch.log) = batch.i - 1 /\ batch.report = <<>>
        /\ batch.pc = "done" =>
              /\ Len(batch.log) = Len(batch.rules)
              /\ batch.report = <<Oks(batch.log), Fails(batch.log)>>
              /\ batch.report[1] + batch.report[2] = Len(batch.rules)

Named(files, name) == {f \in files : f.name = name}

SourceBytes(rule) ==
    LET dir == tree[rule.path[1]]
    IN  {dir.entries[k].data : k \in {j \in 1..Len(dir.entries) :
                                         dir.entries[j].name = rule.name \o <<".mdc">>}}

InstalledAs(rule) == \E f \in localDir.files : f.name = rule.name \o <<".mdc">>

\* rule 2 of 3 has lost its source file: rules 1 and 3 are installed, 2 / 1
C3_Witness ==
    /\ InBatch /\ batch.pc = "done" /\ Len(batch.rules) = 3
    /\ SourceBytes(batch.rules[2]) = {}
    /\ batch.log[1].how = "ok" /\ batch.log[2].how = "copyFails" /\ batch.log[3].how = "ok"
    /\ batch.report = <<2, 1>>
    /\ InstalledAs(batch.rules[1]) /\ InstalledAs(batch.rules[3])
    /\ ~InstalledAs(batch.rules[2])

\* the steps in which installRule copied the file of the rule
InstallCopies(rule) ==
    /\ batch.pc = "run" /\ rule = batch.rules[batch.i]
    /\ Len(batch'.log) = Len(batch.log) + 1
    /\ batch'.log[Len(batch'.log)].how = "ok"

C4_Step ==
    \A rule \in Range(batch.rules) :
        InstallCopies(rule) =>
            LET target == rule.name \o <<".mdc">>
            IN  /\ Cardinality(Named(localDir'.files, target)) = 1
                /\ {f.data : f \in Named(localDir'.files, target)} = SourceBytes(rule)
                /\ localDir'.files \ Named(localDir'.files, target)
                      = localDir.files \ Named(localDir.files, target)

\* C4: after installRule has copied a rule, the installation directory holds
\* exactly one file <name>.mdc, its content is the source file's content at the
\* time of the install, whether or not a file of that name was there, and every
\* other installed file is as it was.
C4_InstallRoundTrip == [][C4_Step]_vars

\* a rule a.mdc was installed from one repository and then again from another,
\* after a pull had rewritten a source file: one a.mdc, the later content
C4_Witness ==
    /\ batch.pc = "done" /\ env.changes > 0
    /\ \E j, k \in 1..Len(batch.log) :
        /\ j < k
        /\ batch.rules[j].name = batch.rules[k].name
        /\ batch.rules[j].repoUrl # batch.rules[k].repoUrl
        /\ batch.log[j].how = "ok" /\ batch.log[k].how = "ok"
        /\ Named(localDir.files, batch.rules[k].name \o <<".mdc">>)
              = {[name |-> A_MDC, data |-> "new"]}
        /\ SourceBytes(batch.rules[k]) = {"new"}
        /\ SourceBytes(batch.rules[j]) # {"new"}

\* C5: whenever installRule fails, for want of the source file or because the
\* destination directory cannot be created or written, the user has been shown
\* an error message that names the rule.
C5_FailureNamesRule ==
    \A j \in 1..Len(batch.log) :
        batch.log[j].how \in {"copyFails", "mkdirFails"} =>
            \E n \in Range(notes) :
                /\ n.level = "error"
                /\ n.about \in {"installError", "failedToInstall"}
                /\ n.rule = batch.rules[j].name

\* the rule files of the enabled repositories: <<k, j>> is entry j of the rules
\* directory of repository k
RuleFiles ==
    UNION {{<<k, j>> : j \in {i \in 1..Len(DirAt(rulesPath(cfgProject[k])).entries) :
                                LET e == DirAt(rulesPath(cfgProject[k])).entries[i]
                                IN  e.isFile /\ e.name[Len(e.name)] = ".mdc"}}
              : k \in {i \in 1..Len(cfgProject) : cfgProject[i].enabled = "true"}}

Before(q, r) == q[1] < r[1] \/ (q[1] = r[1] /\ q[2] <= r[2])

Rank(r) == Cardinality({q \in RuleFiles : Before(q, r)})

\* C6: listRules returns one descriptor for each regular file ending in .mdc
\* directly in the rules directory of each enabled repository, in repository
\* order, nothing for a disabled repository, and nothing, no error either, for
\* a repository whose rules directory does not exist.
C6_ListRules ==
    listed.valid =>
        /\ Len(listed.rules) = Cardinality(RuleFiles)
        /\ \A r \in RuleFiles :
            LET repo == cfgProject[r[1]]
                e == DirAt(rulesPath(repo)).entries[r[2]]
            IN  listed.rules[Rank(r)] =
                    [name |-> SubSeq(e.name, 1, Len(e.name) - 1), repoUrl |-> repo.url,
                     path |-> <<getRepoPath(repo.url), repo.rulesDir>>]
        /\ \A u \in Range(listed.errors) :
            \E k \in 1..Len(cfgProject) :
                /\ cfgProject[k].url = u /\ cfgProject[k].enabled = "true"
                /\ DirAt(rulesPath(cfgProject[k])).kind # "none"

\* an enabled repository without its rules directory, a disabled one with rule
\* files, an enabled one with two rule files among a folder and a text file
C6_Witness ==
    /\ listed.valid /\ Len(cfgProject) = 3 /\ listed.errors = <<>>
    /\ cfgProject[1].enabled = "true" /\ DirAt(rulesPath(cfgProject[1])).kind = "none"
    /\ cfgProject[2].enabled = "false" /\ DirAt(rulesPath(cfgProject[2])) = Dir(FooEntries)
    /\ cfgProject[3].enabled = "true" /\ DirAt(rulesPath(cfgProject[3])) = Dir(BarEntries)
    /\ Len(listed.rules) = 2
    /\ listed.rules[1].name = <<"a">> /\ listed.rules[2].name = <<"b">>

----------------------------------------------------------------------------
(* The manage-repositories commands *)

\* the step that starts a command of one of the kinds on the url
Starts(kinds, url) ==
    /\ cmd.pc = "idle" /\ cmd'.pc # "idle"
    /\ cmd'.kind \in kinds /\ cmd'.repo.url = url

Configured(url) == \E k \in 1..Len(cfgProject) : cfgProject[k].url = url

C11_Step ==
    \A url \in URLS :
        Starts({"update", "toggleEnabled", "toggleAutoUpdate", "remove"}, url) /\ ~Configured(url)
            => /\ cmd'.pc = "done"
               /\ cmd'.threw \/ cmd'.shown = "notFound"
               /\ cmd'.log = <<>>
               /\ cfgProject' = cfgProject
               /\ wc' = wc

\* C11: an update, a toggle of enabled or of auto-update, or a remove that names
\* a url absent from the configured list ends at once with an error, attempts no
\* clone, checkout or pull, and leaves the list and the working copies as they
\* were.
C11_AbsentUrlFails == [][C11_Step]_vars

----------------------------------------------------------------------------
(* Activation *)

\* the working copy a run has a git operation under way on
Target(run) ==
    IF run.pc \in {"clone", "checkout", "pull"}
    THEN {getRepoPath(run.repos[run.i].url)} ELSE {}

\* C12: at most one synchronize run is in flight at any time (the initial run
\* of activation, the auto-update run of activation, the refresh commands), so
\* no working copy is the target of two git operations at once.
C12_SingleSyncInFlight ==
    /\ ~(InFlight(sync) /\ InFlight(bg))
    /\ Target(sync) \cap Target(bg) = {}

\* the entries of the run whose git operation failed
FailedEntries(run) == {run.log[j].i : j \in {k \in 1..Len(run.log) :
                                                run.log[k].op \in GitOps /\ ~run.log[k].ok}}

\* C13: every failure of a synchronize run has shown a message naming the
\* repository, and the message at the end of the run gives the numbers of
\* repositories that succeeded and failed; a run in which a repository failed
\* does not end on plain success.
C13_SyncReportsFailures ==
    SyncDone =>
        /\ \A k \in FailedEntries(sync) : sync.repos[k].url \in Range(sync.errs)
        /\ FailedEntries(sync) # {} =>
              /\ RefreshReport(sync).level # "info"
              /\ Len(RefreshReport(sync).counts) = 2

----------------------------------------------------------------------------
(* The working-copy path *)

\* the tokens of the url after its last "/"
Segment(url) ==
    LET n == Cardinality({k \in 1..Len(url) : url[k] = "/"})
        after(k) == Cardinality({j \in 1..k : url[j] = "/"}) = n
    IN  IF n = 0 THEN url
        ELSE SelectSeq([k \in 1..Len(url) |-> IF after(k) THEN url[k] ELSE "/"],
                       LAMBDA t : t # "/")

\* C14: the working-copy name is a function of the url alone: the same url
\* gives the same name each time, a last segment that ends in .git gives the
\* segment without that trailing .git and otherwise whole, and an empty last
\* segment gives the fallback name made of the url's bytes.
C14_PathOfUrl ==
    \A k \in 1..Len(probe.paths) :
        LET seg == Segment(probe.url)
            n == Len(seg)
        IN  /\ probe.paths[k] = probe.paths[1]
            /\ n > 1 /\ seg[n] = ".git" => probe.paths[k] = SubSeq(seg, 1, n - 1)
            /\ n = 0 => probe.paths[k] = <<"b64">> \o probe.url

----------------------------------------------------------------------------
(* Listing twice *)

C15_Step ==
    /\ cfgProject' = cfgProject /\ cfgRules' = cfgRules
    /\ wc' = wc /\ tree' = tree /\ localDir' = localDir
    /\ listed'.valid /\ batch'.kind = "one" => batch'.rules = listed'.rules

----------------------------------------------------------------------------
(* Repositories that are not updated automatically *)

\* entry k of the configured list is enabled, not auto-updated, and cloned
Manual(k) ==
    /\ Truthy(cfgProject[k].enabled) /\ ~Truthy(cfgProject[k].autoUpdate)
    /\ wc[getRepoPath(cfgProject[k].url)] # NoWC

\* the step is the checkout of the update operation on the url
UpdatesCopyOf(url) == cmd.pc = "updCheckout" /\ cmd.repo.url = url

C16_Step ==
    /\ \A k \in 1..Len(cfgProject) :
        LET repoPath == getRepoPath(cfgProject[k].url)
        IN  Manual(k) /\ wc'[repoPath] # wc[repoPath] => UpdatesCopyOf(cfgProject[k].url)
    /\ \A i \in 1..Len(sync'.repos) :
        /\ Truthy(sync'.repos[i].enabled) /\ ~Truthy(sync'.repos[i].autoUpdate)
        /\ Has(sync'.log, i, "exists", TRUE)
        => \A op \in GitOps : Count(sync'.log, i, op) = 0

\* C16: synchronize performs no clone, checkout or pull on an enabled
\* repository it finds cloned with autoUpdate false, and the working copy of
\* such a repository changes only in the update operation on that repository.
C16_ManualCopyUntouched == [][C16_Step]_vars

----------------------------------------------------------------------------
(* The update operation *)

Ops(log) == [j \in 1..Len(log) |-> <<log[j].op, log[j].ok>>]

\* C17: the update operation on a configured url whose working copy exists,
\* whatever its enabled and autoUpdate flags, checks out the configured branch
\* and then pulls; it does not pull after a failed checkout, and a failed
\* checkout or pull is raised to the caller.
C17_UpdateChecksOutThenPulls ==
    cmd.kind = "update" =>
        LET k == FindIndex(cfgProject, cmd.repo.url)
            repoPath == getRepoPath(cmd.repo.url)
            ops == Ops(cmd.log)
        IN  /\ cmd.pc = "updPull" => ops = <<<<"checkout", TRUE>>>>
            /\ cmd.pc = "done" /\ k # 0 /\ wc[repoPath] # NoWC =>
                  \/ ops = <<<<"checkout", FALSE>>>> /\ cmd.threw
                  \/ ops = <<<<"checkout", TRUE>>, <<"pull", FALSE>>>> /\ cmd.threw
                  \/ ops = <<<<"checkout", TRUE>>, <<"pull", TRUE>>>> /\ ~cmd.threw
            /\ ops # <<>> /\ ops[1][2] => wc[repoPath].branch = cfgProject[k].branch

\* a disabled repository without auto-update was checked out, the pull failed
\* and the failure reached the caller
C17_Witness ==
    /\ cmd.kind = "update" /\ cmd.pc = "done" /\ cmd.threw
    /\ Ops(cmd.log) = <<<<"checkout", TRUE>>, <<"pull", FALSE>>>>
    /\ cmd.repo.enabled = "false" /\ cmd.repo.autoUpdate = "false"
    /\ cmd.repo.branch = "dev"
    /\ wc[getRepoPath(cmd.repo.url)].branch = "dev"

----------------------------------------------------------------------------
(* One directory for one url *)

\* C18: distinct urls of the configured list have distinct working-copy
\* directories, so a checkout or pull of synchronize for one repository never
\* works in the working copy cloned from another configured repository.
C18_DistinctDirectories ==
    sync.pc \in {"checkout", "pull"} =>
        LET copy == wc[getRepoPath(SyncRepo.url)]
        IN  /\ \A k \in 1..Len(cfgProject) :
                  getRepoPath(cfgProject[k].url) = getRepoPath(SyncRepo.url)
                      => cfgProject[k].url = SyncRepo.url
            /\ copy.url # SyncRepo.url => ~Configured(copy.url)

----------------------------------------------------------------------------
(* One list *)

Fields == {"url", "enabled", "branch", "rulesDir", "autoUpdate"}

FieldOf(kind) ==
    CASE kind = "toggleEnabled" -> "enabled"
      [] kind = "toggleAutoUpdate" -> "autoUpdate"
      [] kind = "changeBranch" -> "branch"
      [] kind = "changeRulesDir" -> "rulesDir"

\* the configured list after the command is the list before it except, at most,
\* for the one field of the entry of the url
OnlyFieldChanged(url, field) ==
    /\ Len(cfgProject') = Len(cfgProject)
    /\ \A j \in 1..Len(cfgProject) : \A f \in Fields :
        cfgProject'[j][f] # cfgProject[j][f] => cfgProject[j].url = url /\ f = field

Toggled(url, field) ==
    \A j \in 1..Len(cfgProject) :
        cfgProject[j].url = url => cfgProject'[j][field] = Not(cfgProject[j][field])

\* the manage-repositories menu lists the url
Offered(url) == \E k \in 1..Len(cfgRules) : cfgRules[k].url = url

C19_Step ==
    \A url \in URLS :
        \A kind \in {"toggleEnabled", "toggleAutoUpdate", "changeBranch", "changeRulesDir"} :
            Starts({kind}, url) /\ Configured(url) /\ Offered(url) =>
                /\ OnlyFieldChanged(url, FieldOf(kind))
                /\ kind \in {"toggleEnabled", "toggleAutoUpdate"} => Toggled(url, FieldOf(kind))

\* C19: toggle enabled, toggle auto-update, change branch and change rules
\* directory work on the entry of the list that synchronize, listRules, add and
\* remove use: for a url present in that list (and offered by the menu) the
\* command changes that entry's one field and nothing else in the list, and a
\* toggle negates the field.
C19_SameList == [][C19_Step]_vars


----------------------------------------------------------------------------
\* the picker closed with nothing taken: hidden, or accepted with no item selected
Abandoned == batch.pc = "pick" /\ batch'.pc = "done" /\ batch'.picked = {}

\* the picker accepted with items selected
Accepted == batch.pc = "pick" /\ batch'.picked # {}

NoInstall == localDir' = localDir /\ batch'.log = <<>>

\* the rules at the selected positions of the list the picker showed
PickedRules ==
    [k \in 1..Cardinality(batch'.picked) |-> batch.rules[KthSmallest(batch'.picked, k)]]

BatchStarts == batch'.pc = "run" /\ batch'.rules = PickedRules /\ batch'.i = 1 /\ NoInstall

\* the rules installRule was called for, in the order of the calls
Attempts(b) == [j \in 1..Len(b.log) |-> b.rules[b.log[j].i]]

\* a turn of a started batch: the rule in turn is attempted, no file of another
\* name appears, goes or changes, and the batch ends only after its last rule
BatchTurn ==
    /\ batch'.pc \in {"run", "done"}
    /\ batch'.rules = batch.rules
    /\ Attempts(batch') = Append(Attempts(batch), batch.rules[batch.i])
    /\ \A f \in localDir.files \cup localDir'.files :
         f.name # MdcFile(batch.rules[batch.i].name) => f \in localDir.files \cap localDir'.files
    /\ batch'.pc = "done" => Attempts(batch') = batch.rules

C20_Step_AsStated ==
    /\ Abandoned => NoInstall
    /\ Accepted => BatchStarts
    /\ (batch.pc = "run" /\ batch' # batch) => BatchTurn

\* C20, as stated: an abandoned picker (hidden, or accepted with nothing
\* selected) leads to no install and no change of the local rules directory; an
\* accepted selection starts a batch of exactly the selected rules; a started
\* batch attempts every one of its rules, once, before it ends.
C20_AcceptedSelectionInstalled == [][C20_Step_AsStated]_vars

C20_Step ==
    /\ Abandoned => NoInstall
    /\ Accepted =>
         IF batch.kind = "one" /\ ~env.workspace
         THEN /\ batch'.pc = "done"
              /\ NoInstall
              /\ notes' = <<Note("error", "noWorkspace", None)>>
         ELSE BatchStarts
    /\ (batch.pc = "run" /\ batch' # batch) => BatchTurn

\* C20, amended: an abandoned picker leads to no install and no change of the
\* local rules directory; an accepted selection starts a batch of exactly the
\* selected rules, except that the single-rule command with no workspace open
\* ends with the open-a-workspace error and attempts nothing; a started batch
\* attempts every one of its rules, once, before it ends.
C20_SelectionThenBatch == [][C20_Step]_vars

\* a batch of two of the three or more rules the picker showed has ended, one
\* rule installed and one failed
C20_Witness ==
    /\ batch.kind = "selected"
    /\ batch.pc = "done"
    /\ Cardinality(batch.picked) = 2
    /\ Len(getAllRules) > 2
    /\ Attempts(batch) = batch.rules
    /\ batch.succeeded = 1
    /\ batch.failed = 1
    /\ localDir.files # {}


----------------------------------------------------------------------------
\* the positions of the rules of a name in a list of rules
SameName(rules, name) == {j \in 1..Len(rules) : rules[j].name = name}

Last(S) == CHOOSE x \in S : \A y \in S : y <= x

\* the positions of the enabled repositories whose rules directory holds a
\* regular file <name>.mdc
Contributors(name) ==
    {k \in 1..Len(getEnabledRepositories) :
        \E e \in Range(DirAt(rulesPath(getEnabledRepositories[k])).entries) :
            e.isFile /\ e.name = MdcFile(name)}

Descriptor(k, name) ==
    LET repo == getEnabledRepositories[k]
    IN  Rule(name, repo.url, rulesPath(repo))

RuleNames == {<<"a">>, <<"b">>, <<"c">>}

\* every contributor of the name has its descriptor in the list, in the order
\* of the repositories
BothListed(name) ==
    /\ Cardinality(SameName(getAllRules, name)) = Cardinality(Contributors(name))
    /\ \A k1, k2 \in Contributors(name) :
         k1 < k2 =>
            \E j1, j2 \in SameName(getAllRules, name) :
                /\ j1 < j2
                /\ getAllRules[j1] = Descriptor(k1, name)
                /\ getAllRules[j2] = Descriptor(k2, name)

\* install-all has ended and every rule of the name was copied
AllCopied(name) ==
    /\ batch.kind = "all" /\ batch.pc = "done"
    /\ Cardinality(SameName(batch.rules, name)) >= 2
    /\ \A j \in SameName(batch.rules, name) : batch.log[j].how = "ok"

LaterWins(name) ==
    LET later == batch.rules[Last(SameName(batch.rules, name))]
    IN  /\ \A j \in SameName(batch.rules, name) : batch.log[j].i = j
        /\ batch.succeeded = Oks(batch.log)
        /\ batch.succeeded >= Cardinality(SameName(batch.rules, name))
        /\ Cardinality(Named(localDir.files, MdcFile(name))) = 1
        /\ env.changes = 0 =>
              {f.data : f \in Named(localDir.files, MdcFile(name))} = SourceBytes(later)
        /\ \A note \in Range(notes) :
              /\ note.rule = name => note = Note("info", "installed", name)
              /\ note.level = "warning" => batch.failed > 0

\* C21: when two enabled repositories hold a rule file of the same name,
\* getAllRules lists a descriptor for each, in the order of the repositories;
\* install-all copies each in list order and counts each as succeeded; the
\* installed <name>.mdc is one file with the content of the later one (as long
\* as no pull changed the sources); no notification names the rule other than
\* its "installed" messages and no warning is shown unless some rule failed.
C21_SameNameLaterWins ==
    \A name \in RuleNames :
        /\ BothListed(name)
        /\ AllCopied(name) => LaterWins(name)

\* install-all of four rules, two of them a.mdc from different repositories,
\* has ended without a failure: a.mdc holds the content of the second
C21_Witness ==
    /\ AllCopied(<<"a">>)
    /\ Len(batch.rules) = 4
    /\ batch.rules[1].repoUrl # batch.rules[4].repoUrl
    /\ batch.report = <<4, 0>>
    /\ env.changes = 0
    /\ {f.data : f \in Named(localDir.files, A_MDC)} = {"foo a"}
    /\ Cardinality(localDir.files) = 3


----------------------------------------------------------------------------
NoWorkspaceError == Note("error", "noWorkspace", None)

\* an install command returns to its caller in the step
Returns == batch.pc \in {"idle", "pick", "run"} /\ batch'.pc = "done"

NothingCopied == localDir' = localDir /\ batch'.log = <<>> /\ batch'.pc # "run"

C22_Step_AsStated ==
    ~env.workspace =>
        /\ NothingCopied
        /\ Returns => notes' = <<NoWorkspaceError>>

\* C22, as stated: with no workspace folder open, every install command ends
\* with the open-a-workspace error, and it creates no directory, writes no file
\* and calls installRule for no rule.
C22_NoWorkspaceError == [][C22_Step_AsStated]_vars

C22_Step ==
    ~env.workspace =>
        /\ NothingCopied
        /\ Returns =>
             CASE batch'.kind = "all" -> notes' = <<NoWorkspaceError>>
               [] batch'.kind = "selected" ->
                     IF getAllRules = <<>>
                     THEN notes' = <<Note("info", "noRules", None)>>
                     ELSE notes' = <<NoWorkspaceError>>
               [] batch'.kind = "one" ->
                     IF batch.pc = "idle"
                     THEN getAllRules = <<>> /\ notes' = <<Note("info", "noRules", None)>>
                     ELSE IF Accepted
                     THEN notes' = <<NoWorkspaceError>>
                     ELSE notes' = <<Note("info", "noSelection", None)>>
        /\ (batch.pc = "idle" /\ batch'.pc = "pick") =>
              batch'.kind = "one" /\ getAllRules # <<>>

\* C22, amended: with no workspace folder open, no install command creates a
\* directory, writes a file or calls installRule.  Install-all shows the
\* open-a-workspace error at once; install-selected shows it unless no rule
\* was found, which it reports instead; install-one shows its picker first and
\* shows the error only when a rule was accepted, and reports "no rules" or
\* "no rule selected" otherwise.
C22_NoWorkspaceNoCopy == [][C22_Step]_vars

\* install-one with no workspace open: a rule was picked, the error is shown,
\* nothing was installed
C22_Witness ==
    /\ ~env.workspace
    /\ batch.kind = "one" /\ batch.pc = "done" /\ batch.picked # {}
    /\ notes = <<NoWorkspaceError>>
    /\ batch.log = <<>>
    /\ localDir = NoLocalDir


----------------------------------------------------------------------------
\* the directory entries of the name that installRule reads for the rule
ReadBy(rule) ==
    {e \in Range(DirAt(rule.path).entries) : e.name = rule.name \o <<".mdc">>}

\* the rule names a regular file of its directory: its name and a trailing .mdc
Discovered(rule) ==
    \E e \in ReadBy(rule) :
        /\ ReadBy(rule) = {e}
        /\ e.isFile
        /\ Len(e.name) = Len(rule.name) + 1
        /\ SubSeq(e.name, 1, Len(rule.name)) = rule.name
        /\ e.name[Len(e.name)] = ".mdc"

\* the failure of the j-th install was not for want of its source file
DestinationFailed(j) ==
    /\ batch.log[j].how \in {"mkdirFails", "copyFails"}
    /\ Discovered(batch.rules[batch.log[j].i])

\* C23: while the filesystem is unchanged, the file installRule reads for a
\* listed rule is the regular file the listing found (the rule's name is that
\* file's name less its trailing .mdc), so in an install-all every failure is
\* one of the destination, and none happens when the destination takes the
\* writes.
C23_ListedIsInstallable ==
    /\ listed.valid => \A rule \in Range(listed.rules) : Discovered(rule)
    /\ batch.kind = "all" =>
          /\ \A rule \in Range(batch.rules) : Discovered(rule) /\ CanEnd(rule, "ok")
          /\ \A j \in 1..Len(batch.log) : batch.log[j].how # "ok" => DestinationFailed(j)

\* install-all of a.mdc.mdc, .mdc and a.mdc has ended with three installed
C23_Witness ==
    /\ batch.kind = "all" /\ batch.pc = "done"
    /\ batch.report = <<3, 0>>
    /\ {f.name : f \in localDir.files} = {A_MDC_MDC, BARE_MDC, A_MDC}
    /\ \E k \in 1..3 : batch.rules[k].name = <<>>
    /\ listed.valid /\ listed.rules = batch.rules


----------------------------------------------------------------------------
\* addRepository raised to its caller because its clone failed
FailedAdd ==
    /\ cmd.kind = "add" /\ cmd.pc = "done" /\ cmd.threw
    /\ cmd.log # <<>>
    /\ cmd.log[Len(cmd.log)] = LogEntry(0, "clone", FALSE)

ClonesAgain(run, url) ==
    \E j \in 1..Len(run.log) :
        /\ run.log[j].op = "clone"
        /\ run.repos[run.log[j].i].url = url

\* C24: when addRepository has raised because the clone of an enabled
\* repository failed, the repository is in the configured list as given, it
\* has no working copy, and the synchronize that follows attempts its clone.
C24_FailedAddIsRetried ==
    FailedAdd =>
        LET k == FindIndex(cfgProject, cmd.repo.url)
        IN  /\ k # 0
            /\ cfgProject[k] = cmd.repo
            /\ sync.pc = "idle" => wc[getRepoPath(cmd.repo.url)] = NoWC
            /\ sync.pc = "done" => ClonesAgain(sync, cmd.repo.url)


----------------------------------------------------------------------------
\* the rules of the picker whose file <name>.mdc is in the installation directory
InstalledItems ==
    {k \in 1..Len(batch.rules) :
        localDir.exists /\ \E f \in localDir.files : f.name = batch.rules[k].name \o <<".mdc">>}

\* C25: while the multi-select picker shows, the directory that was scanned is
\* the directory installRule copies into, whatever the localRulesDir settings,
\* and the pre-selected items are the rules whose <name>.mdc is in it.
C25_ScanIsInstallDir ==
    (batch.kind = "selected" /\ batch.pc = "pick") =>
        /\ ScannedDir = getLocalRulesDir
        /\ batch.marked = InstalledItems

====
